---------------------------- MODULE Spec2Model ----------------------------
(***************************************************************************)
(* Synchronization engine of multiplayer.py: N mpv player processes, one   *)
(* per screen, driven over one IPC socket each.  The main thread launches  *)
(* the players, waits for their sockets, runs the pause -> seek -> resume  *)
(* barrier (sync_all) and then polls the position of player 0, re-running  *)
(* the barrier when the position regresses.  A broadcast                   *)
(* (send_command_parallel) runs one worker thread per socket and joins     *)
(* them.  SIGINT/SIGTERM run cleanup_processes and exit.                   *)
(***************************************************************************)
EXTENDS Integers, Sequences, FiniteSets, TLC

\* ---------------------------------------------------------------- bounds
\* Number of screens (config value num_screens, validated to lie in 1..8).
NumScreens == 2
\* Length of every video in position units: a player at VideoLen - 1 wraps to 0.
VideoLen == 3
\* The polling loop is followed for at most MaxIter iterations.
MaxIter == 11
\* cleanup_processes is entered at most MaxTeardowns times: signals that
\* would start a further run are not followed.
MaxTeardowns == 2

\* ------------------------------------------------------ program constants
MAX_RETRIES == 3
CLEANUP_RETRIES == 1
health_check_interval == 10
max_failed_reads == 5
LOOP_THRESHOLD == 1
\* Python's None, as returned by get_video_position on a failed read.
None == -1

Slots == 0 .. (NumScreens - 1)
Commands == {"pause", "seek", "resume"}
Positions == 0 .. (VideoLen - 1)

VARIABLES
    pc,                     \* position of the main thread
    proc,                   \* per slot: "none", "starting", "running", "exited"
    sock,                   \* per slot: the endpoint file exists
    paused,                 \* per slot: the player's pause property
    pos,                    \* per slot: the player's time-pos
    processes,              \* the tracked process handles (slot indices)
    i,                      \* index of the main thread's current for-loop
    threads,                \* per slot: the worker of the current broadcast
    results,                \* per slot: the broadcast's result vector
    command,                \* the command of the current broadcast
    caller,                 \* who called sync_all: "startup" or "loop"
    sync_ok,                \* the value sync_all returned
    last_position,
    iteration,
    failed_position_reads,
    current_position,
    exit_pending,           \* the status of the sys.exit that follows cleanup
    exit_code,              \* None while the main thread runs
    fatal,                  \* why the engine took a fatal path ("none" if not)
    attempted,              \* per command: slots a connection attempt was made to
    resolved,               \* per command: slots whose send has returned
    acked,                  \* slots the current broadcast's command was written to
    nak,                    \* commands whose broadcast was not written to every slot
    dead_at_entry,          \* a tracked process had exited when sync_all was entered
    dead_polls,             \* poll iterations begun while a tracked process had exited
    teardowns,              \* number of times cleanup_processes has been entered
    quit_tried,             \* slots the current cleanup_processes has sent quit to
    entered_from,           \* where the main thread was when it entered the current
                            \* cleanup_processes: "engine", "teardown", "returned"
    term_calls,             \* per slot: number of terminate() calls on its process
    sc_pc,                  \* one send_command call followed attempt by attempt:
                            \* "idle", "try", "sleep", "ret", "raised"
    sc_slot,                \* the slot whose socket the call connects to
    sc_retries,             \* its parameter retries
    sc_attempt,             \* its loop variable attempt
    sc_log,                 \* the outcomes of the attempts it has made
    sc_sleeps,              \* the time.sleep(RETRY_DELAY) calls it has made
    sc_ret,                 \* the value it returned
    resync_failed,          \* a sync_all called from the polling loop has returned False
                            \* (kept while the loop runs)
    run_pc,                 \* the polling loop of a timed run with healthy players:
                            \* "idle", "sleep", "sample", "sync"
    run_clock,              \* seconds since the initial sync_all resumed the players
    run_pos,                \* per player of the run: its playback position, seconds
    run_resyncs,            \* the clock values at which the loop called sync_all
    cfg_n,                  \* the configured screen count, config['num_screens']
    cfg_videos,             \* per screen index: what the mapped video path is:
                            \* "" (none), "missing" (no such file), "file"
    cfg_mpv                 \* shutil.which('mpv') finds the player

vars == << pc, proc, sock, paused, pos, processes, i, threads, results, command,
           caller, sync_ok, last_position, iteration, failed_position_reads,
           current_position, exit_pending, exit_code, fatal,
           attempted, resolved, acked, nak, dead_at_entry, dead_polls,
           teardowns, quit_tried, entered_from, term_calls,
           sc_pc, sc_slot, sc_retries, sc_attempt, sc_log, sc_sleeps, sc_ret,
           resync_failed, run_pc, run_clock, run_pos, run_resyncs,
           cfg_n, cfg_videos, cfg_mpv >>

envVars == << proc, sock, paused, pos >>
bcVars == << threads, results, command >>
loopVars == << last_position, iteration, failed_position_reads, current_position >>
cleanupVars == << teardowns, quit_tried, entered_from, term_calls >>
scVars == << sc_pc, sc_slot, sc_retries, sc_attempt, sc_log, sc_sleeps, sc_ret >>
runVars == << run_pc, run_clock, run_pos, run_resyncs >>
cfgVars == << cfg_n, cfg_videos, cfg_mpv >>
sideVars == << scVars, runVars, cfgVars >>
ghostVars == << attempted, resolved, acked, nak, dead_at_entry, dead_polls,
               cleanupVars, sideVars, resync_failed >>
sendVars == << attempted, resolved, acked, nak >>

\* ------------------------------------------------------------- helpers
Alive(s) == proc[s] \in {"starting", "running"}

NoSlots == [c \in Commands |-> {}]

RECURSIVE SeqToSet(_)
SeqToSet(q) == IF q = << >> THEN {} ELSE {Head(q)} \cup SeqToSet(Tail(q))

\* check_processes_health: indices, in list order, of the tracked handles
\* whose poll() is not None.
RECURSIVE DeadFrom(_, _)
DeadFrom(handles, k) ==
    IF k > Len(handles) THEN << >>
    ELSE IF ~Alive(handles[k])
         THEN << k - 1 >> \o DeadFrom(handles, k + 1)
         ELSE DeadFrom(handles, k + 1)

\* Mutant: the scan starts at the second handle.
health_skips_first == DeadFrom(processes, 2)

\* Mutant: the scan never appends an index.
health_finds_nothing == << >>

check_processes_health == DeadFrom(processes, 1)

\* Some process handle in processes belongs to a process that has exited.
SomeTrackedExited ==
    \E k \in 1 .. Len(processes) : proc[processes[k]] = "exited"

\* The outcomes one connection attempt on the socket of slot s can have.
AttemptOutcomes(s) ==
    IF ~sock[s] THEN {"notfound"}
    ELSE IF proc[s] # "running" THEN {"refused"}
    ELSE {"ok", "timeout", "error"}

\* What the player of slot s does with a command written to its socket.
Deliver(s, c) ==
    /\ paused' = [paused EXCEPT ![s] = IF c = "pause" THEN TRUE
                                        ELSE IF c = "resume" THEN FALSE
                                        ELSE @]
    /\ pos' = [pos EXCEPT ![s] = IF c = "seek" THEN 0 ELSE @]

\* ------------------------------------------------------------------ Init
\* The timed run: three players whose videos are RunPeriod seconds long,
\* followed for RunLength seconds.
RunSlotCount == 3
RunPeriod == 10
RunLength == 25
RunSlots == 0 .. RunSlotCount - 1

\* No timed run is being followed.
RunIdle ==
    /\ run_pc = "idle"
    /\ run_clock = 0
    /\ run_pos = [s \in RunSlots |-> 0]
    /\ run_resyncs = << >>

\* The bounds of the screen count accepted by the configuration check.
MIN_SCREENS == 1
MAX_SCREENS == 8
PathKinds == {"", "missing", "file"}

\* The configuration the engine runs with has passed the checks.
CfgValid ==
    /\ cfg_n = NumScreens
    /\ cfg_videos = [k \in 0 .. MAX_SCREENS - 1 |-> "file"]
    /\ cfg_mpv = TRUE

Init ==
    /\ pc = "launch"
    /\ proc = [s \in Slots |-> "none"]
    /\ sock = [s \in Slots |-> FALSE]
    /\ paused = [s \in Slots |-> FALSE]
    /\ pos = [s \in Slots |-> 0]
    /\ processes = << >>
    /\ i = 0
    /\ threads = [s \in Slots |-> "idle"]
    /\ results = [s \in Slots |-> FALSE]
    /\ command = "pause"
    /\ caller = "startup"
    /\ sync_ok = FALSE
    /\ last_position = 0
    /\ iteration = 0
    /\ failed_position_reads = 0
    /\ current_position = None
    /\ exit_pending = 0
    /\ exit_code = None
    /\ fatal = "none"
    /\ attempted = NoSlots
    /\ resolved = NoSlots
    /\ acked = {}
    /\ nak = {}
    /\ dead_at_entry = FALSE
    /\ dead_polls = 0
    /\ teardowns = 0
    /\ quit_tried = {}
    /\ entered_from = "engine"
    /\ term_calls = [s \in Slots |-> 0]
    /\ sc_pc = "idle"
    /\ sc_slot = 0
    /\ sc_retries = MAX_RETRIES
    /\ sc_attempt = 0
    /\ sc_log = << >>
    /\ sc_sleeps = 0
    /\ sc_ret = FALSE
    /\ resync_failed = FALSE
    /\ RunIdle
    /\ CfgValid

\* The main thread is inside cleanup_processes.
TeardownPcs == {"cl_quit", "cl_term", "cl_kill", "cl_unlink"}

\* Mutant: cleanup_processes begins at its termination loop.
CleanupStartNoQuit == "cl_term"

\* The first statement of cleanup_processes: the quit loop.
CleanupStart == "cl_quit"

\* cleanup_processes() followed by sys.exit(code): the main thread enters the
\* quit loop of cleanup_processes with the exit status pending.  Nothing
\* after this point reads the polling loop's variables or sync_all's caller
\* and result again, so they are dropped.
EnterCleanup(code, why) ==
    /\ pc' = CleanupStart
    /\ i' = 0
    /\ exit_pending' = code
    /\ fatal' = IF fatal = "none" THEN why ELSE fatal
    /\ caller' = "startup"
    /\ sync_ok' = FALSE
    /\ last_position' = 0
    /\ iteration' = 0
    /\ failed_position_reads' = 0
    /\ current_position' = None
    /\ dead_at_entry' = FALSE
    /\ teardowns' = teardowns + 1
    /\ quit_tried' = {}
    /\ entered_from' = IF pc \in TeardownPcs THEN "teardown"
                       ELSE IF pc = "cl_done" THEN "returned"
                       ELSE "engine"
    /\ resync_failed' = FALSE
    /\ UNCHANGED term_calls
    /\ UNCHANGED dead_polls


\* ------------------------------------------------------------ environment
\* A player finishes starting: mpv binds its --input-ipc-server socket.
SockAppear(s) ==
    /\ proc[s] = "starting"
    /\ proc' = [proc EXCEPT ![s] = "running"]
    /\ sock' = [sock EXCEPT ![s] = TRUE]
    /\ UNCHANGED << pc, paused, pos, processes, i, bcVars, caller, sync_ok,
                    loopVars, exit_pending, exit_code, fatal, ghostVars >>

\* The state of the players after the process of slot s has exited: its
\* endpoint file stays behind, and it has no playback state any more.
Exited(s) ==
    /\ proc' = [proc EXCEPT ![s] = "exited"]
    /\ paused' = [paused EXCEPT ![s] = FALSE]
    /\ pos' = [pos EXCEPT ![s] = 0]
    /\ UNCHANGED sock

\* A player process exits on its own (crash, window closed).
Die(s) ==
    /\ Alive(s)
    /\ Exited(s)
    /\ UNCHANGED << pc, processes, i, bcVars, caller, sync_ok, loopVars,
                    exit_pending, exit_code, fatal, ghostVars >>

\* Playback time passes: every running, unpaused player advances and wraps
\* at the end of its video (mpv --loop).
Tick ==
    /\ \E s \in Slots : proc[s] = "running" /\ ~paused[s]
    /\ pos' = [s \in Slots |->
                 IF proc[s] = "running" /\ ~paused[s]
                 THEN (pos[s] + 1) % VideoLen ELSE pos[s]]
    /\ UNCHANGED << pc, proc, sock, paused, processes, i, bcVars, caller,
                    sync_ok, loopVars, exit_pending, exit_code, fatal, ghostVars >>

\* ---------------------------------------------------------------- startup
\* Launch loop, subprocess.Popen for screen i: the process starts, or Popen
\* raises and the engine cleans up and exits 1.
Launch ==
    /\ pc = "launch"
    /\ \/ /\ proc' = [proc EXCEPT ![i] = "starting"]
          /\ pc' = "register"
          /\ UNCHANGED << i, exit_pending, fatal, caller, sync_ok, loopVars,
                          dead_at_entry, dead_polls,
                    cleanupVars, resync_failed >>
       \/ /\ EnterCleanup(1, "spawn")
          /\ UNCHANGED proc
    /\ UNCHANGED << sock, paused, pos, processes, bcVars, exit_code, sendVars, sideVars >>

\* Launch loop, processes.append(proc), and the loop's next round.
Register ==
    /\ pc = "register"
    /\ processes' = Append(processes, i)
    /\ i' = i + 1
    /\ pc' = IF i + 1 = NumScreens THEN "warmup" ELSE "launch"
    /\ UNCHANGED << envVars, bcVars, caller, sync_ok, loopVars, exit_pending,
                    exit_code, fatal, ghostVars >>

\* time.sleep(STARTUP_DELAY), then the check that every process still runs.
Warmup ==
    /\ pc = "warmup"
    /\ IF check_processes_health # << >>
       THEN EnterCleanup(1, "warmup")
       ELSE /\ pc' = "wait_sock"
            /\ i' = 0
            /\ UNCHANGED << exit_pending, fatal, caller, sync_ok, loopVars,
                            dead_at_entry, dead_polls,
                    cleanupVars, resync_failed >>
    /\ UNCHANGED << envVars, processes, bcVars, exit_code, sendVars, sideVars >>

\* Mutant: the wait loop takes every socket file for present.
SocketAssumed(k) == TRUE

\* os.path.exists(sock_path) for the socket of slot k.
SocketExists(k) == sock[k]

\* Wait for socket i: it exists, or the 10 s timeout passes without it.
WaitSocket ==
    /\ pc = "wait_sock"
    /\ IF SocketExists(i)
       THEN /\ i' = i + 1
            /\ pc' = IF i + 1 = NumScreens THEN "sync_check" ELSE "wait_sock"
            /\ caller' = "startup"
            /\ UNCHANGED << exit_pending, fatal, sync_ok, loopVars,
                            dead_at_entry, dead_polls,
                    cleanupVars, resync_failed >>
       ELSE EnterCleanup(1, "socket")
    /\ UNCHANGED << envVars, processes, bcVars, exit_code, sendVars, sideVars >>


\* ------------------------------------------------------ send_command
\* The outcome sequences the connection attempts of one send_command call on
\* the socket of slot s can have: one outcome per attempt, at most retries.
AttemptSeqs(s, retries) ==
    UNION { [1 .. n -> AttemptOutcomes(s)] : n \in 1 .. retries }

\* send_command's for-loop, attempt in range(retries), from round attempt on,
\* against the attempt outcomes outs: the first success returns True,
\* FileNotFoundError returns False at once, timeout / refused / any other
\* exception sleeps RETRY_DELAY and goes to the next round; when the rounds
\* are used up it returns False.  The value is the pair of the returned
\* boolean and the number of attempts made.
RECURSIVE SendFrom(_, _, _)
SendFrom(outs, attempt, retries) ==
    IF attempt >= retries \/ attempt >= Len(outs)
    THEN << FALSE, attempt >>
    ELSE IF outs[attempt + 1] = "ok" THEN << TRUE, attempt + 1 >>
    ELSE IF outs[attempt + 1] = "notfound" THEN << FALSE, attempt + 1 >>
    ELSE SendFrom(outs, attempt + 1, retries)

send_command(outs, retries) == SendFrom(outs, 0, retries)

\* outs is the outcome sequence of a complete call: the call used every
\* outcome, and it did not stop for lack of a further one.
\* Mutant: the for-loop has no last round, a refused or timed-out send is
\* retried for ever.
NeverGivesUp(outs, retries) == FALSE

\* for attempt in range(retries) is used up after retries attempts.
GivesUp(outs, retries) == Len(outs) = retries

CompleteRun(outs, retries) ==
    LET r == send_command(outs, retries) IN
    /\ r[2] = Len(outs)
    /\ r[1] \/ outs[Len(outs)] = "notfound" \/ GivesUp(outs, retries)

\* ---------------------------------------------- send_command_parallel
\* results = [False] * len(sockets_list); threads = []; the start loop begins.
StartBroadcast(c) ==
    /\ results' = [s \in Slots |-> FALSE]
    /\ threads' = [s \in Slots |-> "idle"]
    /\ command' = c
    /\ i' = 0
    /\ pc' = "bc_spawn"
    /\ acked' = {}

\* thread = Thread(target=send_to_socket, args=(idx, sock_path)); thread.start()
BcSpawn ==
    /\ pc = "bc_spawn"
    /\ threads' = [threads EXCEPT ![i] = "run"]
    /\ i' = i + 1
    /\ pc' = IF i + 1 = NumScreens THEN "bc_join" ELSE "bc_spawn"
    /\ UNCHANGED << envVars, processes, results, command, caller, sync_ok,
                    loopVars, exit_pending, exit_code, fatal, ghostVars >>

\* Mutant: every worker assigns the entry after its own.
ResultIndexShifted(s) == (s + 1) % NumScreens

\* The entry of results the worker started with idx = s assigns.
ResultIndex(s) == s

\* Mutant: the worker stores a fresh list that holds only its own outcome.
WriteResultAlone(res, idx, r) == [t \in Slots |-> IF t = idx THEN r ELSE FALSE]

\* results[idx] = ..., the item assignment of send_to_socket.
WriteResult(res, idx, r) == [res EXCEPT ![idx] = r]

\* The worker thread of slot s runs send_to_socket: send_command with its
\* retries, then results[idx] is assigned and the thread ends.
Worker(s) ==
    /\ threads[s] = "run"
    /\ \E outs \in AttemptSeqs(s, MAX_RETRIES) :
         /\ CompleteRun(outs, MAX_RETRIES)
         /\ LET r == send_command(outs, MAX_RETRIES) IN
            /\ results' = WriteResult(results, ResultIndex(s), r[1])
            /\ IF outs[Len(outs)] = "ok"
               THEN /\ Deliver(s, command)
                    /\ acked' = acked \cup {s}
               ELSE UNCHANGED << paused, pos, acked >>
    /\ threads' = [threads EXCEPT ![s] = "done"]
    /\ attempted' = [attempted EXCEPT ![command] = @ \cup {s}]
    /\ resolved' = [resolved EXCEPT ![command] = @ \cup {s}]
    /\ UNCHANGED << pc, proc, sock, processes, i, command, caller, sync_ok,
                    loopVars, exit_pending, exit_code, fatal, nak,
                    dead_at_entry, dead_polls,
                    cleanupVars, sideVars,
                    resync_failed >>

\* Mutant: send_command_parallel returns without joining its threads.
JoinedNone == TRUE

\* Mutant: only the first thread is joined.
JoinedFirstOnly == threads[0] = "done"

\* for thread in threads: thread.join() has returned for every thread.
AllJoined == \A s \in Slots : threads[s] = "done"

\* success_count = sum(results)
success_count == Cardinality({s \in Slots : results[s]})

\* Mutant: sync_all reports success as soon as one instance resumed.
SyncResultAny == success_count > 0

\* The value sync_all returns after the resume broadcast.
SyncResult == ~(success_count < NumScreens)

\* --------------------------------------------------------------- sync_all
\* Entry of sync_all: the health check, then the pause broadcast starts.
SyncCheck ==
    /\ pc = "sync_check"
    /\ attempted' = NoSlots
    /\ resolved' = NoSlots
    /\ nak' = {}
    /\ dead_at_entry' = SomeTrackedExited
    /\ IF check_processes_health # << >>
       THEN /\ sync_ok' = FALSE
            /\ pc' = "sync_ret"
            /\ acked' = {}
            /\ UNCHANGED << i, bcVars >>
       ELSE /\ StartBroadcast("pause")
            /\ UNCHANGED sync_ok
    /\ UNCHANGED << envVars, processes, caller, loopVars, exit_pending,
                    exit_code, fatal, dead_polls,
                    cleanupVars, sideVars,
                    resync_failed >>

\* for thread in threads: thread.join() is through; return results
BcJoin ==
    /\ pc = "bc_join"
    /\ AllJoined
    /\ pc' = "bc_ret"
    /\ UNCHANGED << envVars, processes, i, bcVars, caller, sync_ok, loopVars,
                    exit_pending, exit_code, fatal, ghostVars >>

\* Mutant: sync_all resumes right after the pause broadcast.
NextCommandNoSeek(c) == "resume"

\* The command sync_all broadcasts after command c.
NextCommand(c) == IF c = "pause" THEN "seek" ELSE "resume"

\* sync_all goes on with the results of a broadcast: after the pause and the
\* seek broadcast it warns about failures, sleeps SYNC_DELAY and starts the
\* next broadcast; after the resume broadcast it returns False if
\* success_count < NUM_SCREENS and True otherwise.
SyncPhase ==
    /\ pc = "bc_ret"
    /\ nak' = IF acked # Slots THEN nak \cup {command} ELSE nak
    /\ IF command # "resume"
       THEN /\ StartBroadcast(NextCommand(command))
            /\ UNCHANGED sync_ok
       ELSE /\ sync_ok' = SyncResult
            /\ pc' = "sync_ret"
            /\ UNCHANGED << i, bcVars, acked >>
    /\ UNCHANGED << envVars, processes, caller, loopVars, exit_pending,
                    exit_code, fatal, attempted, resolved, dead_at_entry,
                    dead_polls,
                    cleanupVars, sideVars,
                    resync_failed >>

\* The caller of sync_all takes its result: at startup a failure is fatal and
\* a success enters the polling loop; in the polling loop a failure is only
\* logged and last_position = current_position ends the iteration.  The
\* frames of sync_all and send_command_parallel are gone: their locals (the
\* returned value, results, threads) are dropped.
\* Mutant: after a failed sync_all the sample is not recorded, so that the
\* next iteration sees the same regression again.
LastKeptOnFailure(cur, last, ok) == IF ok THEN cur ELSE last

\* last_position = current_position follows the if statement that called
\* sync_all, whatever sync_all returned.
LastAfterResync(cur, last, ok) == cur

\* Mutant: the polling loop too gives up when sync_all returns False.
FailureAlwaysFatal(c) == TRUE

\* Mutant: the result of the initial sync_all is only logged.
FailureNeverFatal(c) == FALSE

\* Whether the caller of sync_all shuts the engine down when it returns
\* False: lines 486-490 do, lines 566-567 only log an error.
FailureIsFatal(c) == c = "startup"

SyncReturn ==
    /\ pc = "sync_ret"
    /\ IF ~sync_ok /\ FailureIsFatal(caller)
       THEN EnterCleanup(1, "initsync")
       ELSE /\ resync_failed' = (resync_failed \/ (caller = "loop" /\ ~sync_ok))
            /\ IF caller = "startup"
               THEN /\ pc' = "loop_sleep"
                    /\ last_position' = 0
                    /\ iteration' = 0
                    /\ failed_position_reads' = 0
                    /\ sync_ok' = FALSE
                    /\ dead_at_entry' = FALSE
                    /\ UNCHANGED << i, current_position, exit_pending, fatal,
                                    caller, dead_polls, cleanupVars >>
               ELSE /\ pc' = "loop_sleep"
                    /\ last_position' = LastAfterResync(current_position,
                                                        last_position, sync_ok)
                    /\ sync_ok' = FALSE
                    /\ dead_at_entry' = FALSE
                    /\ UNCHANGED << i, iteration, failed_position_reads,
                                    current_position, exit_pending, fatal,
                                    caller, dead_polls, cleanupVars >>
    /\ threads' = [s \in Slots |-> "idle"]
    /\ results' = [s \in Slots |-> FALSE]
    /\ attempted' = NoSlots
    /\ resolved' = NoSlots
    /\ acked' = {}
    /\ nak' = {}
    /\ UNCHANGED << envVars, processes, command, exit_code, sideVars >>

\* ----------------------------------------------------------- polling loop
\* Mutant: the health check runs every eleventh iteration.
HealthDueRarely(n) == n % (health_check_interval + 1) = 0

\* Mutant: the periodic health check is never due.
HealthNeverDue(n) == FALSE

\* if iteration % health_check_interval == 0
HealthDue(n) == n % health_check_interval = 0

\* time.sleep(1); iteration += 1
LoopSleep ==
    /\ pc = "loop_sleep"
    /\ iteration < MaxIter
    /\ iteration' = iteration + 1
    /\ pc' = IF HealthDue(iteration + 1)
             THEN "loop_health" ELSE "loop_sample"
    /\ dead_polls' = IF SomeTrackedExited THEN dead_polls + 1 ELSE dead_polls
    /\ UNCHANGED << envVars, processes, i, bcVars, caller, sync_ok,
                    last_position, failed_position_reads, current_position,
                    exit_pending, exit_code, fatal, sendVars, dead_at_entry,
                    cleanupVars, sideVars,
                    resync_failed >>

\* Mutant: the periodic health check starts a new process for the first dead
\* slot and goes on.
LoopHealthRespawn ==
    /\ pc = "loop_health"
    /\ pc' = "loop_sample"
    /\ proc' = IF check_processes_health # << >>
               THEN [proc EXCEPT ![processes[Head(check_processes_health) + 1]] = "starting"]
               ELSE proc
    /\ UNCHANGED << sock, paused, pos, processes, i, bcVars, caller, sync_ok,
                    loopVars, exit_pending, exit_code, fatal, ghostVars >>

\* The periodic health check of the iterations that are multiples of
\* health_check_interval.
LoopHealth ==
    /\ pc = "loop_health"
    /\ IF check_processes_health # << >>
       THEN EnterCleanup(1, "dead")
       ELSE /\ pc' = "loop_sample"
            /\ UNCHANGED << i, exit_pending, fatal, caller, sync_ok, loopVars,
                            dead_at_entry, dead_polls,
                    cleanupVars, resync_failed >>
    /\ UNCHANGED << envVars, processes, bcVars, exit_code, sendVars, sideVars >>

\* get_video_position(sockets[0]): the player's time-pos, or None when the
\* socket is absent, nobody listens, the read times out or the reply is bad.
ReadOutcomes ==
    IF sock[0] /\ proc[0] = "running" THEN {pos[0], None} ELSE {None}

\* Mutant: the comparison without the 1 second of slack.
LoopDetectedNoSlack(cur, last) == cur < last

\* A loop-wrap is inferred from the sample cur.
LoopDetected(cur, last) == cur < last - LOOP_THRESHOLD

\* Mutant: the cap is passed only by the read after the last tolerated one.
TooManyFailedReadsLate(n) == n > max_failed_reads

\* The read-failure cap is reached.
TooManyFailedReads(n) == n >= max_failed_reads

\* The iterations of the polling loop's detection, run over the samples from
\* index k on with last as last_position, in which sync_all is called.
RECURSIVE ResyncsAt(_, _, _)
ResyncsAt(samples, k, last) ==
    IF k > Len(samples) THEN {}
    ELSE IF samples[k] = None THEN ResyncsAt(samples, k + 1, last)
    ELSE (IF LoopDetected(samples[k], last) THEN {k} ELSE {})
            \cup ResyncsAt(samples, k + 1, samples[k])

\* Mutant: a failed read is recorded as position 0.
LastForgotten(last) == 0

\* last_position after an iteration whose read returned None: the else
\* branch only counts the failure.
LastAfterFailedRead(last) == last

\* The rest of an iteration: the position read and what follows from it.
LoopSample ==
    /\ pc = "loop_sample"
    /\ \E cur \in ReadOutcomes :
         IF cur # None
         THEN /\ current_position' = cur
              /\ failed_position_reads' = 0
              /\ IF LoopDetected(cur, last_position)
                 THEN /\ pc' = "sync_check"
                      /\ caller' = "loop"
                      /\ UNCHANGED last_position
                 ELSE /\ pc' = "loop_sleep"
                      /\ last_position' = cur
                      /\ UNCHANGED caller
              /\ UNCHANGED << i, exit_pending, fatal, sync_ok, iteration,
                              dead_at_entry, dead_polls,
                    cleanupVars, resync_failed >>
         ELSE IF TooManyFailedReads(failed_position_reads + 1)
              THEN EnterCleanup(1, "reads")
              ELSE /\ current_position' = cur
                   /\ failed_position_reads' = failed_position_reads + 1
                   /\ pc' = "loop_sleep"
                   /\ last_position' = LastAfterFailedRead(last_position)
                   /\ UNCHANGED << i, exit_pending, fatal, sync_ok, iteration,
                                   caller, dead_at_entry, dead_polls,
                                   cleanupVars, resync_failed >>
    /\ UNCHANGED << envVars, processes, bcVars, exit_code, sendVars, sideVars >>

\* ------------------------------------------------------ cleanup_processes
\* Mutant: the sockets are unlinked right after the quit loop.
AfterQuitUnlink == "cl_unlink"

\* What follows the quit loop: time.sleep(0.5) and the termination loop.
AfterQuit == "cl_term"

\* send_command(sock, {"command": ["quit"]}, retries=1) for socket i: a player
\* that receives quit exits, at once or later.
CleanupQuit ==
    /\ pc = "cl_quit"
    /\ \E outs \in AttemptSeqs(i, CLEANUP_RETRIES), now \in BOOLEAN :
         /\ CompleteRun(outs, CLEANUP_RETRIES)
         /\ IF send_command(outs, CLEANUP_RETRIES)[1] /\ now
            THEN Exited(i)
            ELSE UNCHANGED envVars
    /\ quit_tried' = quit_tried \cup {i}
    /\ i' = IF i + 1 = NumScreens THEN 0 ELSE i + 1
    /\ pc' = IF i + 1 = NumScreens THEN AfterQuit ELSE "cl_quit"
    /\ UNCHANGED << processes, bcVars, caller, sync_ok, loopVars, exit_pending,
                    exit_code, fatal, sendVars, dead_at_entry, dead_polls,
                    teardowns, entered_from, term_calls, sideVars,
                    resync_failed >>

\* Mutant: the termination loop does not look at poll().
PollIgnored(s) == TRUE

\* Mutant: the termination loop takes every process for exited.
PollNeverNone(s) == FALSE

\* if proc.poll() is None, for the process of slot s.
StillRunning(s) == Alive(s)

\* time.sleep(0.5) has passed.  The termination loop at handle i + 1 of
\* processes: a process still running is sent terminate() and waited for up
\* to 2 s; it exits in that time, or the wait raises TimeoutExpired.  Past
\* the last handle the unlink loop begins.
CleanupTerminate ==
    /\ pc = "cl_term"
    /\ IF i < Len(processes)
       THEN IF StillRunning(processes[i + 1])
            THEN /\ term_calls' = [term_calls EXCEPT ![processes[i + 1]] = @ + 1]
                 /\ \/ /\ Exited(processes[i + 1])
                       /\ i' = i + 1
                       /\ UNCHANGED pc
                    \/ /\ pc' = "cl_kill"
                       /\ UNCHANGED << envVars, i >>
            ELSE /\ i' = i + 1
                 /\ UNCHANGED << pc, envVars, term_calls >>
       ELSE /\ pc' = "cl_unlink"
            /\ i' = 0
            /\ UNCHANGED << envVars, term_calls >>
    /\ UNCHANGED << processes, bcVars, caller, sync_ok, loopVars, exit_pending,
                    exit_code, fatal, sendVars, dead_at_entry, dead_polls,
                    teardowns, quit_tried, entered_from, sideVars,
                    resync_failed >>

\* except subprocess.TimeoutExpired: proc.kill(); proc.wait() for the process
\* at handle i + 1, which is dead when the wait returns.
CleanupKill ==
    /\ pc = "cl_kill"
    /\ Exited(processes[i + 1])
    /\ i' = i + 1
    /\ pc' = "cl_term"
    /\ UNCHANGED << processes, bcVars, caller, sync_ok, loopVars, exit_pending,
                    exit_code, fatal, sendVars, dead_at_entry, dead_polls,
                    cleanupVars, sideVars,
                    resync_failed >>

\* Mutant: cleanup_processes empties the handle table as it removes the
\* socket files.
HandlesCleared(ps) == << >>

\* The handle table after a round of the unlink loop: the loop only calls
\* os.path.exists and os.unlink on the paths in sockets.
HandlesAfterUnlink(ps) == ps

\* The list sockets of the socket paths: built once, before anything runs,
\* with one path per screen, and never assigned to again.
sockets == [s \in Slots |-> s]

\* The unlink loop at socket i; after the last socket cleanup_processes
\* returns to the sys.exit that follows its call.
CleanupUnlink ==
    /\ pc = "cl_unlink"
    /\ sock' = [sock EXCEPT ![i] = FALSE]
    /\ i' = i + 1
    /\ pc' = IF i + 1 = NumScreens THEN "cl_done" ELSE "cl_unlink"
    /\ processes' = HandlesAfterUnlink(processes)
    /\ UNCHANGED << proc, paused, pos, bcVars, caller, sync_ok,
                    loopVars, exit_pending, exit_code, fatal, ghostVars >>

\* sys.exit(exit_pending) after cleanup_processes has returned: the main
\* thread ends with that status.
SysExit ==
    /\ pc = "cl_done"
    /\ pc' = "exit"
    /\ exit_code' = exit_pending
    /\ UNCHANGED << envVars, processes, i, bcVars, caller, sync_ok, loopVars,
                    exit_pending, fatal, ghostVars >>

\* Mutant: the handler only notes the request and returns to the interrupted
\* code.
SignalDeferred ==
    /\ exit_code = None
    /\ teardowns < MaxTeardowns
    /\ teardowns' = teardowns + 1
    /\ UNCHANGED << envVars, pc, processes, i, bcVars, caller, sync_ok,
                    loopVars, exit_pending, exit_code, fatal, sendVars,
                    dead_at_entry, dead_polls, quit_tried, entered_from,
                    term_calls, sideVars,
                    resync_failed >>

\* signal_handler: SIGINT or SIGTERM reaches the main thread, which runs
\* cleanup_processes and then sys.exit(0).  The interrupted code is never
\* resumed; worker threads of a broadcast in flight keep running.
Signal ==
    /\ exit_code = None
    /\ teardowns < MaxTeardowns
    /\ EnterCleanup(0, "none")
    /\ UNCHANGED << envVars, processes, bcVars, exit_code, sendVars, sideVars >>

\* ------------------------------------------------------------------ Next
Next ==
    \/ Launch
    \/ Register
    \/ Warmup
    \/ WaitSocket
    \/ SyncCheck
    \/ BcSpawn
    \/ \E s \in Slots : Worker(s)
    \/ BcJoin
    \/ SyncPhase
    \/ SyncReturn
    \/ LoopSleep
    \/ LoopHealth
    \/ LoopSample
    \/ CleanupQuit
    \/ CleanupTerminate
    \/ CleanupKill
    \/ CleanupUnlink
    \/ SysExit
    \/ Signal
    \/ \E s \in Slots : SockAppear(s)
    \/ \E s \in Slots : Die(s)
    \/ Tick

Spec == Init /\ [][Next]_vars

\* ------------------------------------- send_command, attempt by attempt
\* One call send_command(sockets[sc_slot], command, sc_retries) followed
\* through its for-loop while the player behind the socket starts, dies or
\* loses its endpoint file.
engineVars == << pc, processes, i, bcVars, caller, sync_ok, loopVars,
                 exit_pending, exit_code, fatal, attempted, resolved, acked,
                 nak, dead_at_entry, dead_polls, cleanupVars >>

\* The states the player of the socket and its endpoint file can be in when
\* send_command is called: starting, listening, listening with the file
\* unlinked, exited with the file left behind or removed.
EndpointStates ==
    { << "starting", FALSE >>, << "running", TRUE >>, << "running", FALSE >>,
      << "exited", TRUE >>, << "exited", FALSE >> }

SendInit ==
    /\ pc = "send_command"
    /\ sc_slot \in Slots
    /\ \E st \in EndpointStates :
         /\ proc = [s \in Slots |-> IF s = sc_slot THEN st[1] ELSE "none"]
         /\ sock = [s \in Slots |-> IF s = sc_slot THEN st[2] ELSE FALSE]
    /\ paused = [s \in Slots |-> FALSE]
    /\ pos = [s \in Slots |-> 0]
    /\ processes = << >>
    /\ i = 0
    /\ threads = [s \in Slots |-> "idle"]
    /\ results = [s \in Slots |-> FALSE]
    /\ command = "pause"
    /\ caller = "startup"
    /\ sync_ok = FALSE
    /\ last_position = 0
    /\ iteration = 0
    /\ failed_position_reads = 0
    /\ current_position = None
    /\ exit_pending = 0
    /\ exit_code = None
    /\ fatal = "none"
    /\ attempted = NoSlots
    /\ resolved = NoSlots
    /\ acked = {}
    /\ nak = {}
    /\ dead_at_entry = FALSE
    /\ dead_polls = 0
    /\ teardowns = 0
    /\ quit_tried = {}
    /\ entered_from = "engine"
    /\ term_calls = [s \in Slots |-> 0]
    /\ sc_pc = "try"
    /\ sc_retries \in 1 .. MAX_RETRIES
    /\ sc_attempt = 0
    /\ sc_log = << >>
    /\ sc_sleeps = 0
    /\ sc_ret = FALSE
    /\ resync_failed = FALSE
    /\ RunIdle
    /\ CfgValid

\* Mutant: there is no except Exception clause.
CaughtNoGeneric(o) == o \in {"timeout", "refused"}

\* The outcomes caught by the clauses except socket.timeout, except
\* ConnectionRefusedError and except Exception.
Caught(o) == o \in {"timeout", "refused", "error"}

\* Mutant: the delay is slept after every failed attempt.
SleepsAfterEvery(attempt, retries) == TRUE

\* if attempt < retries - 1: time.sleep(RETRY_DELAY)
SleepsBefore(attempt, retries) == attempt < retries - 1

\* The for-loop goes to its next round, or is used up and return False
\* follows it.
ScNextRound ==
    IF sc_attempt + 1 < sc_retries
    THEN /\ sc_attempt' = sc_attempt + 1
         /\ sc_pc' = "try"
         /\ UNCHANGED sc_ret
    ELSE /\ sc_pc' = "ret"
         /\ sc_ret' = FALSE
         /\ UNCHANGED sc_attempt

\* One round of the for-loop: connect and send succeed and True is returned;
\* FileNotFoundError returns False; a caught exception is logged and the
\* delay is slept unless this was the last round; any other outcome leaves
\* the function as an exception.
ScAttempt ==
    /\ sc_pc = "try"
    /\ \E o \in AttemptOutcomes(sc_slot) :
         /\ sc_log' = Append(sc_log, o)
         /\ IF o = "ok"
            THEN /\ sc_pc' = "ret"
                 /\ sc_ret' = TRUE
                 /\ UNCHANGED sc_attempt
            ELSE IF o = "notfound"
            THEN /\ sc_pc' = "ret"
                 /\ sc_ret' = FALSE
                 /\ UNCHANGED sc_attempt
            ELSE IF Caught(o)
            THEN IF SleepsBefore(sc_attempt, sc_retries)
                 THEN /\ sc_pc' = "sleep"
                      /\ UNCHANGED << sc_attempt, sc_ret >>
                 ELSE ScNextRound
            ELSE /\ sc_pc' = "raised"
                 /\ UNCHANGED << sc_attempt, sc_ret >>
    /\ UNCHANGED << envVars, engineVars, sc_slot, sc_retries, sc_sleeps,
                    resync_failed, runVars, cfgVars >>

\* time.sleep(RETRY_DELAY) returns.
ScSleep ==
    /\ sc_pc = "sleep"
    /\ sc_sleeps' = sc_sleeps + 1
    /\ ScNextRound
    /\ UNCHANGED << envVars, engineVars, sc_slot, sc_retries, sc_log,
                    resync_failed, runVars, cfgVars >>

\* The endpoint file of the socket is unlinked while the call runs (the
\* unlink loop of a teardown running on the main thread).
ScUnlinked ==
    /\ sock[sc_slot]
    /\ sock' = [sock EXCEPT ![sc_slot] = FALSE]
    /\ UNCHANGED << proc, paused, pos, engineVars, sideVars, resync_failed >>

SendNext ==
    \/ ScAttempt
    \/ ScSleep
    \/ ScUnlinked
    \/ \E s \in Slots : SockAppear(s)
    \/ \E s \in Slots : Die(s)

SendSpec == SendInit /\ [][SendNext]_vars

\* ======================================================= a timed run
\* The polling loop followed second by second while every player is healthy:
\* every send and every position read succeeds, each time.sleep(1) lets one
\* second of video play, and a video that reaches its end starts again
\* (--loop-file=inf). The clock starts when the initial sync_all resumes the
\* players at position 0.

\* Seconds that pass between the initial sync_all and the first time.sleep(1)
\* of the loop (the click on the center screen, lines 492-527).
RunStartDelays == {0, 1}

\* Seconds one sync_all takes: three broadcasts and two time.sleep(SYNC_DELAY).
SyncDurations == {0, 1}

RunInit ==
    /\ pc = "polling"
    /\ proc = [s \in Slots |-> "none"]
    /\ sock = [s \in Slots |-> FALSE]
    /\ paused = [s \in Slots |-> FALSE]
    /\ pos = [s \in Slots |-> 0]
    /\ processes = << >>
    /\ i = 0
    /\ threads = [s \in Slots |-> "idle"]
    /\ results = [s \in Slots |-> FALSE]
    /\ command = "pause"
    /\ caller = "startup"
    /\ sync_ok = FALSE
    /\ last_position = 0
    /\ iteration = 0
    /\ failed_position_reads = 0
    /\ current_position = None
    /\ exit_pending = 0
    /\ exit_code = None
    /\ fatal = "none"
    /\ attempted = NoSlots
    /\ resolved = NoSlots
    /\ acked = {}
    /\ nak = {}
    /\ dead_at_entry = FALSE
    /\ dead_polls = 0
    /\ teardowns = 0
    /\ quit_tried = {}
    /\ entered_from = "engine"
    /\ term_calls = [s \in Slots |-> 0]
    /\ sc_pc = "idle"
    /\ sc_slot = 0
    /\ sc_retries = MAX_RETRIES
    /\ sc_attempt = 0
    /\ sc_log = << >>
    /\ sc_sleeps = 0
    /\ sc_ret = FALSE
    /\ resync_failed = FALSE
    /\ run_pc = "sleep"
    /\ run_clock \in RunStartDelays
    /\ run_pos = [s \in RunSlots |-> run_clock % RunPeriod]
    /\ run_resyncs = << >>
    /\ CfgValid

\* What is left unchanged by the steps of the timed run.
runFrame == << envVars, pc, processes, i, bcVars, caller, sync_ok,
               failed_position_reads, exit_pending, exit_code, fatal,
               attempted, resolved, acked, nak, dead_at_entry, dead_polls,
               cleanupVars, scVars, resync_failed, cfgVars >>

\* time.sleep(1); iteration += 1, while every player plays one more second.
RunSleep ==
    /\ run_pc = "sleep"
    /\ run_clock < RunLength
    /\ run_clock' = run_clock + 1
    /\ run_pos' = [s \in RunSlots |-> (run_pos[s] + 1) % RunPeriod]
    /\ iteration' = iteration + 1
    /\ run_pc' = "sample"
    /\ UNCHANGED << last_position, current_position, run_resyncs, runFrame >>

\* current_position = get_video_position(sockets[0]) and the comparison with
\* last_position: a detected loop calls sync_all.
RunSample ==
    /\ run_pc = "sample"
    /\ current_position' = run_pos[0]
    /\ IF LoopDetected(run_pos[0], last_position)
       THEN /\ run_pc' = "sync"
            /\ run_resyncs' = Append(run_resyncs, run_clock)
            /\ UNCHANGED last_position
       ELSE /\ run_pc' = "sleep"
            /\ last_position' = run_pos[0]
            /\ UNCHANGED run_resyncs
    /\ UNCHANGED << iteration, run_clock, run_pos, runFrame >>

\* Mutant: the sample that triggered a sync_all is not kept.
PositionNotKept(cur, last) == last

\* last_position = current_position
PositionKept(cur, last) == cur

\* sync_all with healthy players: all are paused, sought to 0 and resumed;
\* then last_position = current_position.
RunSync ==
    /\ run_pc = "sync"
    /\ \E d \in SyncDurations : run_clock' = run_clock + d
    /\ run_pos' = [s \in RunSlots |-> 0]
    /\ last_position' = PositionKept(current_position, last_position)
    /\ run_pc' = "sleep"
    /\ UNCHANGED << iteration, current_position, run_resyncs, runFrame >>

RunNext ==
    \/ RunSleep
    \/ RunSample
    \/ RunSync

RunSpec == RunInit /\ [][RunNext]_vars

\* ================================================ configuration checks
\* The checks the script makes before it launches anything, for any screen
\* count and any state of the mapped video paths.

\* The screen counts tried, and how many paths of one input may be bad.
CfgCounts == (MIN_SCREENS - 2) .. (MAX_SCREENS + 1)
MaxBadPaths == 2

\* videos = [VIDEO_MONITOR_MAPPING.get(i, "") for i in range(NUM_SCREENS)]:
\* the path of screen k, "" when the mapping has none.
CfgInputs ==
    { v \in [0 .. MAX_SCREENS - 1 -> PathKinds] :
        Cardinality({k \in 0 .. MAX_SCREENS - 1 : v[k] # "file"}) <= MaxBadPaths }

ConfigInit ==
    /\ pc = "validate_count"
    /\ proc = [s \in Slots |-> "none"]
    /\ sock = [s \in Slots |-> FALSE]
    /\ paused = [s \in Slots |-> FALSE]
    /\ pos = [s \in Slots |-> 0]
    /\ processes = << >>
    /\ i = 0
    /\ threads = [s \in Slots |-> "idle"]
    /\ results = [s \in Slots |-> FALSE]
    /\ command = "pause"
    /\ caller = "startup"
    /\ sync_ok = FALSE
    /\ last_position = 0
    /\ iteration = 0
    /\ failed_position_reads = 0
    /\ current_position = None
    /\ exit_pending = 0
    /\ exit_code = None
    /\ fatal = "none"
    /\ attempted = NoSlots
    /\ resolved = NoSlots
    /\ acked = {}
    /\ nak = {}
    /\ dead_at_entry = FALSE
    /\ dead_polls = 0
    /\ teardowns = 0
    /\ quit_tried = {}
    /\ entered_from = "engine"
    /\ term_calls = [s \in Slots |-> 0]
    /\ sc_pc = "idle"
    /\ sc_slot = 0
    /\ sc_retries = MAX_RETRIES
    /\ sc_attempt = 0
    /\ sc_log = << >>
    /\ sc_sleeps = 0
    /\ sc_ret = FALSE
    /\ resync_failed = FALSE
    /\ RunIdle
    /\ cfg_n \in CfgCounts
    /\ cfg_videos \in CfgInputs
    /\ cfg_mpv \in BOOLEAN

\* What is left unchanged by the configuration checks.
cfgFrame == << envVars, processes, bcVars, caller, sync_ok, loopVars,
               exit_pending, fatal, ghostVars >>

\* sys.exit(1) straight from a check: no cleanup_processes, nothing to clean.
Reject ==
    /\ pc' = "exit"
    /\ exit_code' = 1
    /\ UNCHANGED i

\* Mutant: only the upper bound of the count is checked.
CountAtMost(n) == n <= MAX_SCREENS

\* 1 <= NUM_SCREENS <= 8
CountInRange(n) == MIN_SCREENS <= n /\ n <= MAX_SCREENS

\* if not 1 <= NUM_SCREENS <= 8: sys.exit(1)
ValidateCount ==
    /\ pc = "validate_count"
    /\ IF ~CountInRange(cfg_n)
       THEN Reject
       ELSE /\ pc' = "validate_videos"
            /\ i' = 0
            /\ UNCHANGED exit_code
    /\ UNCHANGED cfgFrame

\* for i, video_path in enumerate(videos): an empty path and a path that is
\* not a file each end the script with status 1.
ValidateVideo ==
    /\ pc = "validate_videos"
    /\ IF i < cfg_n
       THEN IF cfg_videos[i] = "" \/ cfg_videos[i] = "missing"
            THEN Reject
            ELSE /\ i' = i + 1
                 /\ UNCHANGED << pc, exit_code >>
       ELSE /\ pc' = "check_mpv"
            /\ UNCHANGED << i, exit_code >>
    /\ UNCHANGED cfgFrame

\* if not shutil.which('mpv'): sys.exit(1); otherwise the socket directory
\* is prepared and the launch loop begins.
CheckMpv ==
    /\ pc = "check_mpv"
    /\ IF ~cfg_mpv
       THEN Reject
       ELSE /\ pc' = "launch"
            /\ i' = 0
            /\ UNCHANGED exit_code
    /\ UNCHANGED cfgFrame

\* The checks, followed by the first round of the launch loop.
ConfigNext ==
    \/ ValidateCount
    \/ ValidateVideo
    \/ CheckMpv
    \/ Launch

ConfigSpec == ConfigInit /\ [][ConfigNext]_vars

\* ============================================================ properties
BcPcs == {"bc_spawn", "bc_join", "bc_ret"}
LoopPcs == {"loop_sleep", "loop_health", "loop_sample"}
AllRunning == \A s \in Slots : proc[s] = "running"

\* C1: within one invocation of the barrier no slot is sent (nor has a worker
\* started for) the seek command before the pause send to every slot has
\* resolved, and none the resume command before the seek send to every slot
\* has resolved.
C1_PhaseOrder ==
    /\ (attempted["seek"] # {} \/ (command = "seek" /\ \E s \in Slots : threads[s] # "idle"))
          => resolved["pause"] = Slots
    /\ (attempted["resume"] # {} \/ (command = "resume" /\ \E s \in Slots : threads[s] # "idle"))
          => (resolved["pause"] = Slots /\ resolved["seek"] = Slots)

\* A resume send has been made in a barrier whose pause broadcast failed on
\* some slot after its retries.
C1_Witness ==
    /\ pc = "bc_join"
    /\ command = "resume"
    /\ attempted["resume"] # {}
    /\ "pause" \in nak

\* C2: if a tracked process had exited when the barrier was entered, the
\* barrier returns failure at once: no worker is started and no pause, seek
\* or resume command is sent to any slot.
C2_DeadAbort ==
    dead_at_entry =>
        /\ pc = "sync_ret"
        /\ ~sync_ok
        /\ attempted = NoSlots
        /\ acked = {}
        /\ \A s \in Slots : threads[s] = "idle"

\* The barrier invoked by the polling loop has returned because of a dead process.
C2_Witness == pc = "sync_ret" /\ dead_at_entry /\ caller = "loop"

\* C3: when every tracked process was alive at its entry, the barrier returns
\* success exactly if every slot acknowledged the resume command, and all
\* three broadcasts were made to every slot whatever failed in pause and seek.
C3_ResumeDecides ==
    (pc = "sync_ret" /\ ~dead_at_entry) =>
        /\ command = "resume"
        /\ sync_ok <=> (acked = Slots)
        /\ \A c \in Commands : attempted[c] = Slots /\ resolved[c] = Slots

\* The barrier returned success although both the pause and the seek
\* broadcast failed on some slot.
C3_Witness ==
    /\ pc = "sync_ret"
    /\ ~dead_at_entry
    /\ sync_ok
    /\ nak = {"pause", "seek"}

\* C4: in every invocation of the barrier in which every command reached
\* every slot and all players are running, each player is paused at position
\* 0 when its resume is sent, and the barrier returns success with every
\* player unpaused.
C4_Idempotence ==
    /\ \A s \in Slots :
         (command = "resume" /\ threads[s] = "run" /\ nak = {} /\ proc[s] = "running")
            => (paused[s] /\ pos[s] = 0)
    /\ (pc = "sync_ret" /\ ~dead_at_entry /\ nak = {} /\ AllRunning)
            => (sync_ok /\ \A s \in Slots : ~paused[s])

\* A barrier invoked again by the polling loop has returned success with
\* every command acknowledged by every slot.
C4_Witness ==
    /\ pc = "sync_ret"
    /\ caller = "loop"
    /\ ~dead_at_entry
    /\ nak = {}
    /\ AllRunning
    /\ sync_ok

\* C5: when a broadcast returns, one send has been made for each of the
\* NumScreens slots, every worker has ended, and the result vector has one
\* entry per slot, entry s being the outcome of the send to slot s.
C5_BroadcastJoined ==
    pc = "bc_ret" =>
        /\ \A s \in Slots : threads[s] = "done"
        /\ attempted[command] = Slots
        /\ resolved[command] = Slots
        /\ Cardinality(resolved[command]) = NumScreens
        /\ DOMAIN results = Slots
        /\ \A s \in Slots : results[s] <=> s \in acked

\* The seek broadcast has returned with a partial failure.
C5_Witness ==
    /\ pc = "bc_ret"
    /\ command = "seek"
    /\ acked # Slots
    /\ acked # {}

\* C6: the result vector a broadcast returns is false exactly at the slots
\* whose send never succeeded, and true at all others.
C6_PartialFailure ==
    pc = "bc_ret" => {s \in Slots : ~results[s]} = Slots \ acked

\* A broadcast to running players has returned [TRUE, FALSE].
C6_Witness ==
    /\ pc = "bc_ret"
    /\ AllRunning
    /\ results[0]
    /\ ~results[1]

\* C7: an iteration of the polling loop calls the barrier exactly if its
\* sample succeeded and is smaller than last_position minus the slack of one
\* second; the first iteration never calls it, and the samples 5, 6, 7, 0
\* call it once, at the fourth.
C7_DriftTrigger ==
    [][ /\ (pc = "loop_sample" /\ pc' # "loop_sample") =>
              /\ (pc' = "sync_check") <=>
                    (current_position' # None
                       /\ current_position' < last_position - LOOP_THRESHOLD)
              /\ (pc' = "sync_check") => (caller' = "loop" /\ iteration > 1)
        /\ (pc \notin {"loop_sample", "sync_check"} /\ pc' = "sync_check") =>
              pc = "wait_sock"
        /\ ResyncsAt(<< 5, 6, 7, 0 >>, 1, 0) = {4}
      ]_vars

\* The loop calls the barrier on the sample 0 after the sample 2.
C7_Witness ==
    /\ pc = "sync_check"
    /\ caller = "loop"
    /\ last_position = 2
    /\ current_position = 0

\* C8: a failed read counts one up and a successful read resets the count to
\* 0; the loop starts the fatal teardown (exit status 1) at the read that
\* brings the count to max_failed_reads, and at no read that leaves it lower.
C8_ReadFailureCap ==
    [][ /\ (pc \in LoopPcs) => failed_position_reads < max_failed_reads
        /\ (fatal' = "reads" /\ fatal # "reads") =>
              /\ pc = "loop_sample"
              /\ failed_position_reads + 1 = max_failed_reads
              /\ pc' = "cl_quit"
              /\ exit_pending' = 1
        /\ (pc = "loop_sample" /\ pc' = "loop_sleep" /\ current_position' = None) =>
              /\ failed_position_reads' = failed_position_reads + 1
              /\ failed_position_reads' < max_failed_reads
        /\ (pc = "loop_sample" /\ pc' # "loop_sample" /\ current_position' # None) =>
              failed_position_reads' = 0
        /\ (pc' = "exit" /\ fatal' = "reads") =>
              (exit_code' = 1 \/ exit_pending' = 0)
      ]_vars

\* The engine has exited with status 1 after max_failed_reads failed reads.
C8_Witness == pc = "exit" /\ fatal = "reads" /\ exit_code = 1

\* C9 as stated: a process that has exited is detected within one poll
\* interval, so no second iteration begins with an exited process.
C9_WithinOneInterval == dead_polls <= 1

\* C9, amended: at most health_check_interval iterations begin with an exited
\* process, and the last of them runs the health check; the engine that
\* exits after it has terminated every tracked process, with status 1 unless
\* a signal was handled during the teardown.
C9_WithinHealthInterval ==
    /\ dead_polls <= health_check_interval
    /\ (pc \in LoopPcs /\ dead_polls = health_check_interval) => pc = "loop_health"
    /\ (pc = "exit" /\ fatal = "dead") =>
          /\ \A k \in 1 .. Len(processes) : ~Alive(processes[k])
          /\ (exit_code = 1 \/ exit_pending = 0)

\* The engine has exited with status 1 in the tenth iteration after a process exited.
C9_Witness ==
    /\ pc = "exit"
    /\ fatal = "dead"
    /\ exit_code = 1
    /\ dead_polls = health_check_interval

\* C10: the health check returns the indices of exactly the tracked processes
\* that have exited, in ascending order, and the step that runs it changes
\* nothing but the position of the main thread when it finds none (and no
\* process, socket or handle when it finds some).
C10_HealthCheck ==
    [][ /\ SeqToSet(check_processes_health) =
              {k - 1 : k \in {j \in 1 .. Len(processes) : proc[processes[j]] = "exited"}}
        /\ \A a, b \in 1 .. Len(check_processes_health) :
              a < b => check_processes_health[a] < check_processes_health[b]
        /\ (pc = "loop_health" /\ pc' = "loop_sample") =>
              UNCHANGED << envVars, processes, i, bcVars, caller, sync_ok,
                           loopVars, exit_pending, exit_code, fatal, ghostVars >>
        /\ (pc \in {"loop_health", "sync_check", "warmup"} /\ pc' # pc) =>
              UNCHANGED << envVars, processes >>
      ]_vars

\* The periodic health check has found the process of slot 1 exited and that of slot 0 running.
C10_Witness ==
    /\ pc = "cl_quit"
    /\ i = 0
    /\ fatal = "dead"
    /\ exit_pending = 1
    /\ check_processes_health = << 1 >>

\* Every process that was spawned has its handle in processes.
AllSpawnedTracked ==
    \A s \in Slots : proc[s] # "none" => s \in SeqToSet(processes)

\* C11: while the teardown started by a termination signal is in progress,
\* no step starts cleanup_processes again: the count of teardown runs stays
\* and no slot is sent quit a second time.
C11_TeardownOnce ==
    [][ (pc \in TeardownPcs /\ fatal = "none") =>
            (teardowns' = teardowns /\ quit_tried \subseteq quit_tried')
      ]_vars

\* C12: terminate() is only ever called on a process that is still running;
\* a cleanup_processes entered after the previous one has returned calls it
\* on no process; and when cleanup_processes returns, with every spawned
\* process tracked, no process is alive and no endpoint file exists.
C12_TeardownIdempotent ==
    [][ /\ \A s \in Slots : term_calls'[s] # term_calls[s] => Alive(s)
        /\ (entered_from = "returned") => term_calls' = term_calls
        /\ (pc = "cl_done" /\ AllSpawnedTracked) =>
              \A s \in Slots : ~sock[s] /\ ~Alive(s)
      ]_vars

\* cleanup_processes has returned for the second time in succession, the
\* first run having terminated every process.
C12_Witness ==
    /\ pc = "cl_done"
    /\ entered_from = "returned"
    /\ teardowns = 2
    /\ quit_tried = Slots
    /\ \A s \in Slots : term_calls[s] = 1

\* C13: once cleanup_processes has been entered, no worker of a broadcast
\* makes a connection attempt or writes a barrier command to a slot.
C13_NoSendInTeardown ==
    [][ teardowns > 0 => (attempted' = attempted /\ acked' = acked) ]_vars

\* C14: sync_all is entered only from the end of startup or from a sample of
\* the polling loop, and then no worker of an earlier broadcast exists; a
\* broadcast starts only when no worker of the previous one is still running;
\* and while the main thread is in the polling loop no worker exists and no
\* barrier send is outstanding.
C14_OneBarrier ==
    [][ /\ (pc' = "sync_check" /\ pc # "sync_check") =>
              /\ pc \in {"wait_sock", "loop_sample"}
              /\ \A s \in Slots : threads[s] = "idle"
        /\ (pc' = "bc_spawn" /\ pc # "bc_spawn") =>
              \A s \in Slots : threads[s] # "run"
        /\ (pc \in LoopPcs) =>
              /\ \A s \in Slots : threads[s] = "idle"
              /\ attempted = NoSlots
        /\ (pc \in BcPcs \cup {"sync_ret"} /\ pc' \in LoopPcs) =>
              (pc = "sync_ret" /\ pc' = "loop_sleep")
      ]_vars

\* A barrier called by the polling loop is between its pause and its seek
\* broadcast, after the sample 0 that followed the sample 2.
C14_Witness ==
    /\ pc = "bc_spawn"
    /\ caller = "loop"
    /\ command = "seek"
    /\ i = 0
    /\ iteration > 1
    /\ resolved["pause"] = Slots

\* C15: the engine exits non-zero if it detected a fatal condition, and with
\* 0 only if it did not.
C15_ExitCode ==
    pc = "exit" =>
        /\ (fatal # "none" => exit_code # 0)
        /\ (exit_code = 0 => fatal = "none")

\* The main thread is between the start of the launch loop and the return
\* of the initial sync_all.
InStartup ==
    \/ pc \in {"launch", "register", "warmup", "wait_sock"}
    \/ (pc \in BcPcs \cup {"sync_check", "sync_ret"} /\ caller = "startup")

\* The fatal conditions of startup.
StartupFatal == {"spawn", "warmup", "socket", "initsync"}

C17_TeardownBeforeExit ==
    [][ /\ (pc' = "exit" /\ pc # "exit") =>
              (pc = "cl_done" /\ teardowns >= 1 /\ quit_tried = Slots)
        /\ (pc = "exit") => (teardowns >= 1 /\ quit_tried = Slots)
        /\ (pc = "cl_done") => quit_tried = Slots
      ]_vars

\* The engine has exited after Popen failed for the second screen.
C17_Witness ==
    /\ pc = "exit"
    /\ fatal = "spawn"
    /\ processes = << 0 >>
    /\ quit_tried = Slots
    /\ exit_code = 1

\* C18: outside the launch loop the handle list does not change and no
\* process is created; a process that has exited stays exited, and a slot
\* that has a process keeps it.
C18_NoRespawn ==
    [][ /\ (pc \notin {"launch", "register"}) =>
              /\ processes' = processes
              /\ \A s \in Slots : proc'[s] = "starting" => proc[s] = "starting"
        /\ \A s \in Slots : proc[s] = "exited" => proc'[s] = "exited"
        /\ \A s \in Slots : proc[s] # "none" => proc'[s] # "none"
        /\ (pc = "launch" /\ pc' = "register") =>
              (proc[i] = "none" /\ Len(processes) = i)
      ]_vars

\* The polling loop has passed a health check and samples on while the
\* process of slot 1 has exited later.
C18_Witness ==
    /\ pc = "loop_sample"
    /\ iteration > health_check_interval
    /\ proc[1] = "exited"
    /\ proc[0] = "running"
    /\ processes = << 0, 1 >>

\* The outcome of the last attempt of the call.
LastOutcome == IF sc_log = << >> THEN "none" ELSE sc_log[Len(sc_log)]

\* C19 as stated: a send returns failure only when maxRetries attempts have
\* been made.
C19_RetryAll ==
    (sc_pc = "ret" /\ ~sc_ret) => Len(sc_log) = sc_retries

\* C19, amended: an attempt that finds the endpoint file absent ends the send
\* with failure at once; an attempt that is refused, times out or fails
\* otherwise is followed, after one delay, by the next attempt until retries
\* attempts have been made, and only then is failure returned.
C19_RetryExceptAbsent ==
    /\ \A k \in 1 .. Len(sc_log) - 1 : sc_log[k] \in {"refused", "timeout", "error"}
    /\ (sc_pc = "ret" /\ ~sc_ret) =>
          (LastOutcome = "notfound" \/ Len(sc_log) = sc_retries)
    /\ (sc_pc = "ret" /\ LastOutcome \in {"refused", "timeout", "error"}) =>
          (~sc_ret /\ Len(sc_log) = sc_retries /\ sc_sleeps = sc_retries - 1)
    /\ (LastOutcome = "notfound") =>
          (sc_pc = "ret" /\ ~sc_ret /\ sc_sleeps = Len(sc_log) - 1)
    /\ (sc_pc = "try") => (sc_sleeps = Len(sc_log) /\ sc_attempt = Len(sc_log))
    /\ (sc_pc = "sleep") =>
          /\ LastOutcome \in {"refused", "timeout", "error"}
          /\ Len(sc_log) < sc_retries
          /\ sc_sleeps = Len(sc_log) - 1

\* A send with three attempts allowed has returned failure after one attempt,
\* which found the endpoint file absent.
C19_Witness ==
    /\ sc_pc = "ret"
    /\ ~sc_ret
    /\ sc_retries = MAX_RETRIES
    /\ sc_log = << "notfound" >>

\* C20: a send makes at most retries attempts, each of its steps uses up one
\* of its at most 2 * retries - 1 attempts and delays, it returns True
\* exactly at the first attempt that succeeds and False otherwise, does
\* nothing after it has returned, and never leaves by an exception; its
\* outcome is the one send_command computes from the attempt outcomes.
C20_SendTerminates ==
    [][ /\ Len(sc_log) <= sc_retries
        /\ Len(sc_log) + sc_sleeps <= 2 * sc_retries - 1
        /\ (scVars' # scVars) =>
              Len(sc_log') + sc_sleeps' = Len(sc_log) + sc_sleeps + 1
        /\ sc_pc # "raised"
        /\ \A k \in 1 .. Len(sc_log) - 1 : sc_log[k] # "ok"
        /\ (sc_pc = "ret") =>
              /\ sc_ret <=> LastOutcome = "ok"
              /\ ~sc_ret => (LastOutcome = "notfound" \/ Len(sc_log) = sc_retries)
              /\ send_command(sc_log, sc_retries) = << sc_ret, Len(sc_log) >>
              /\ UNCHANGED scVars
        /\ (sc_pc # "ret" /\ sc_pc' = "ret" /\ ~sc_ret' /\ sc_log' = sc_log) =>
              Len(sc_log) = sc_retries
      ]_vars

\* A send with three attempts allowed has returned True at its second attempt.
C20_Witness ==
    /\ sc_pc = "ret"
    /\ sc_ret
    /\ sc_retries = MAX_RETRIES
    /\ sc_log = << "timeout", "ok" >>
    /\ sc_sleeps = 1

\* The pcs of cleanup_processes and of the exit that follows it.
ShutdownPcs == TeardownPcs \cup {"cl_done", "exit"}

\* C21: when the initial sync_all has failed (not every slot took the resume
\* command, a dead process at its entry included), the engine's next step
\* starts cleanup_processes with exit status 1 pending; from then on the
\* engine is never in the polling loop, and it exits with status 1 unless a
\* signal has restarted the teardown.
C21_InitialFailureFatal ==
    [][ /\ (pc = "sync_ret" /\ caller = "startup" /\ acked # Slots
              /\ pc' # pc) =>
              /\ pc' = "cl_quit"
              /\ \/ (exit_pending' = 1 /\ fatal' = "initsync")
                 \/ (exit_pending' = 0 /\ fatal' = "none")
        /\ (fatal = "initsync") =>
              /\ pc \in ShutdownPcs
              /\ pc' \in ShutdownPcs
        /\ (fatal = "initsync" /\ teardowns = 1 /\ pc' = "exit") =>
              exit_code' = 1
      ]_vars

\* The engine has exited with status 1 because the initial sync_all failed.
C21_Witness ==
    /\ pc = "exit"
    /\ fatal = "initsync"
    /\ exit_code = 1
    /\ teardowns = 1

\* C22: when a sync_all called from the polling loop has failed, the engine's
\* next step goes on with the loop (no shutdown, no exit status, the sample
\* that triggered it becomes last_position) unless a signal arrives; and after
\* such a failure an iteration calls sync_all again exactly if its sample is
\* a detected wrap.
C22_ResyncFailureContinues ==
    [][ /\ (pc = "sync_ret" /\ caller = "loop" /\ acked # Slots
              /\ pc' # pc) =>
              \/ /\ pc' = "loop_sleep"
                 /\ fatal' = "none"
                 /\ exit_code' = None
                 /\ teardowns' = teardowns
                 /\ iteration' = iteration
                 /\ last_position' = current_position
                 /\ resync_failed'
              \/ (pc' = "cl_quit" /\ exit_pending' = 0 /\ fatal' = "none")
        /\ (resync_failed /\ pc = "loop_sample" /\ pc' # pc) =>
              ((pc' = "sync_check") <=>
                   (current_position' # None
                      /\ LoopDetected(current_position', last_position)))
      ]_vars

\* After a failed sync_all of the polling loop, the loop calls sync_all again.
C22_Witness ==
    /\ resync_failed
    /\ pc = "sync_check"
    /\ caller = "loop"
    /\ fatal = "none"

\* C23 as stated: the step that follows a failed sync_all of the polling
\* loop starts the shutdown.
C23_MidRunFailureShutsDown ==
    [][ (pc = "sync_ret" /\ caller = "loop" /\ acked # Slots /\ pc' # pc) =>
            pc' = "cl_quit"
      ]_vars

\* C23: a failed sync_all of the polling loop does not shut the engine down:
\* the step that follows it starts a shutdown only if it is a signal, and
\* once such a failure has happened the engine leaves the loop only for
\* another reason: a dead process at a health check, too many failed
\* position reads, or a signal.
C23_MidRunFailureSurvived ==
    [][ /\ (pc = "sync_ret" /\ caller = "loop" /\ acked # Slots
              /\ pc' \in ShutdownPcs) =>
              (exit_pending' = 0 /\ fatal' = "none")
        /\ (resync_failed /\ pc \notin ShutdownPcs /\ pc' \in ShutdownPcs) =>
              \/ (exit_pending' = 1 /\ fatal' \in {"dead", "reads"})
              \/ (exit_pending' = 0 /\ fatal' = "none")
        /\ resync_failed => (pc \notin ShutdownPcs /\ exit_code = None)
      ]_vars

\* The engine samples positions again after a failed sync_all of the loop.
C23_Witness ==
    /\ resync_failed
    /\ pc = "loop_sample"
    /\ fatal = "none"
    /\ exit_code = None

\* The distance between two clock values.
Apart(a, b) == IF a < b THEN b - a ELSE a - b

\* C24: in a timed run of RunLength = 25 seconds with three healthy players
\* whose videos are RunPeriod = 10 seconds long, sampled once per second, the
\* loop calls sync_all at most twice, and when the run is over it has called
\* it exactly twice: within one second of t = 10 and of t = 20; the players
\* are at the same position at every sample.
C24_TwoResyncs ==
    (run_pc # "idle") =>
        /\ Len(run_resyncs) <= 2
        /\ (run_clock >= RunLength) =>
              /\ Len(run_resyncs) = 2
              /\ Apart(run_resyncs[1], RunPeriod) <= 1
              /\ Apart(run_resyncs[2], 2 * RunPeriod) <= 1
        /\ \A s \in RunSlots : run_pos[s] = run_pos[0]

\* The run is over and the second sync_all was called at t = 21.
C24_Witness ==
    /\ run_pc = "sleep"
    /\ run_clock = RunLength
    /\ run_resyncs = << RunPeriod, 2 * RunPeriod + 1 >>

\* C25: the step that handles a signal takes the main thread into
\* cleanup_processes wherever it was, and once cleanup_processes has been
\* entered no worker thread is started, no phase of a barrier begins, and no
\* position sample is taken or counted: the main thread stays in the
\* teardown until it exits.
C25_SignalAbandons ==
    [][ /\ (teardowns' > teardowns /\ exit_pending' = 0) =>
              /\ pc' = "cl_quit"
              /\ threads' = threads
              /\ command' = command
        /\ (teardowns > 0) =>
              /\ pc \in ShutdownPcs
              /\ pc' \in ShutdownPcs
              /\ \A s \in Slots : threads'[s] = "run" => threads[s] = "run"
              /\ command' = command
              /\ caller' = caller
              /\ iteration' = iteration
              /\ current_position' = current_position
              /\ last_position' = last_position
      ]_vars

\* The engine has exited after a signal that arrived while the pause phase of
\* the initial barrier was starting its workers: the worker of slot 1 was
\* never started and no seek was sent.
C25_Witness ==
    /\ pc = "exit"
    /\ fatal = "none"
    /\ exit_code = 0
    /\ command = "pause"
    /\ threads[0] # "idle"
    /\ threads[1] = "idle"
    /\ attempted["seek"] = {}

\* The scheduling the teardown relies on: the main thread, once in
\* cleanup_processes, keeps running (every send, wait and unlink there is
\* bounded by a timeout), and sys.exit follows its return.
LiveSpec ==
    /\ Spec
    /\ WF_vars(CleanupQuit \/ CleanupTerminate \/ CleanupKill
                 \/ CleanupUnlink \/ SysExit)

\* Every process in the processes list has exited.
TrackedDead == \A k \in 1 .. Len(processes) : ~Alive(processes[k])

\* C26: whenever a signal has been handled (cleanup_processes entered with
\* exit status 0 pending), the engine eventually has exited with every
\* process of the processes list dead.
C26_SignalLeadsToExit ==
    (teardowns > 0 /\ exit_pending = 0) ~> (pc = "exit" /\ TrackedDead)

\* The engine has exited with status 0 after a signal, with both
\* processes terminated by the teardown.
C26_Witness ==
    /\ pc = "exit"
    /\ exit_code = 0
    /\ fatal = "none"
    /\ Len(processes) = NumScreens
    /\ TrackedDead
    /\ \A s \in Slots : term_calls[s] > 0

\* C27: within cleanup_processes no process is sent terminate() before quit
\* has been sent to the socket of every slot, and only a tracked process
\* that has not exited is sent it; kill() follows only a terminate() that
\* the process has outlived, and leaves it dead; a socket file is removed
\* only after every tracked process is dead; and when cleanup_processes
\* returns, every tracked process is dead and, if every spawned process was
\* tracked, no socket file exists.
C27_TeardownOrder ==
    [][ /\ \A s \in Slots : (term_calls'[s] # term_calls[s]) =>
              /\ pc = "cl_term"
              /\ quit_tried = Slots
              /\ Alive(s)
              /\ s \in SeqToSet(processes)
              /\ term_calls'[s] = term_calls[s] + 1
        /\ (pc' = "cl_kill" /\ pc # "cl_kill") =>
              /\ pc = "cl_term"
              /\ term_calls'[processes[i + 1]] = term_calls[processes[i + 1]] + 1
              /\ Alive(processes[i + 1])
        /\ (pc = "cl_kill" /\ pc' = "cl_term") =>
              (proc'[processes[i + 1]] = "exited" /\ i' = i + 1)
        /\ (\E s \in Slots : sock[s] /\ ~sock'[s]) =>
              (pc = "cl_unlink" /\ TrackedDead)
        /\ (pc' = "cl_done" /\ pc # "cl_done") =>
              /\ pc = "cl_unlink"
              /\ TrackedDead'
              /\ AllSpawnedTracked => \A s \in Slots : ~sock'[s]
      ]_vars

\* cleanup_processes has returned after a run in which the process of slot 0
\* needed no terminate() and the process of slot 1 was sent one.
C27_Witness ==
    /\ pc = "cl_done"
    /\ teardowns = 1
    /\ Len(processes) = NumScreens
    /\ term_calls[0] = 0
    /\ term_calls[1] = 1
    /\ TrackedDead
    /\ \A s \in Slots : ~sock[s]

\* C28: the initial sync_all is entered only from the socket wait, which is
\* entered only when the warm-up check found every one of the NUM_SCREENS
\* tracked processes running, and left only when every socket file exists;
\* when the warm-up check finds a dead process, or a socket file is still
\* missing at its timeout, the engine starts cleanup_processes with exit
\* status 1 pending, it has sent no pause, seek or resume to any slot, and it
\* exits with status 1 unless a signal has restarted the teardown.
C28_BarrierAfterWarmup ==
    [][ /\ (pc = "warmup" /\ pc' = "wait_sock") =>
              /\ Len(processes) = NumScreens
              /\ \A k \in 1 .. Len(processes) : Alive(processes[k])
        /\ (pc # "wait_sock" /\ pc' = "wait_sock") => pc = "warmup"
        /\ (pc = "wait_sock" /\ pc' = "sync_check") =>
              /\ \A s \in Slots : sock[s]
              /\ caller' = "startup"
              /\ attempted = NoSlots
        /\ (pc # "sync_check" /\ pc' = "sync_check" /\ caller' = "startup") =>
              pc = "wait_sock"
        /\ (pc = "warmup" /\ SomeTrackedExited /\ pc' # pc) =>
              /\ pc' = "cl_quit"
              /\ \/ (exit_pending' = 1 /\ fatal' = "warmup")
                 \/ (exit_pending' = 0 /\ fatal' = "none")
        /\ (pc = "wait_sock" /\ ~sock[i] /\ pc' # pc) =>
              /\ pc' = "cl_quit"
              /\ \/ (exit_pending' = 1 /\ fatal' = "socket")
                 \/ (exit_pending' = 0 /\ fatal' = "none")
        /\ (fatal' \in {"warmup", "socket"}) =>
              /\ pc' \in ShutdownPcs
              /\ attempted' = NoSlots
              /\ \A s \in Slots : threads'[s] = "idle"
              /\ (teardowns' = 1 /\ pc' = "exit") => exit_code' = 1
      ]_vars

\* The engine has exited with status 1 because a socket file did not appear,
\* with every process spawned and tracked and no barrier command sent.
C28_Witness ==
    /\ pc = "exit"
    /\ fatal = "socket"
    /\ exit_code = 1
    /\ Len(processes) = NumScreens
    /\ attempted = NoSlots

\* The configured input is one the checks must refuse: the count is outside
\* 1..8, or the path of one of its screens is empty or not a file.
InvalidInput ==
    \/ cfg_n < MIN_SCREENS
    \/ cfg_n > MAX_SCREENS
    \/ \E k \in 0 .. cfg_n - 1 : cfg_videos[k] # "file"

\* C29: with an input whose screen count is outside 1..8 or one of whose
\* screens has an empty or missing video path, the script never gets past
\* the checks: it is still checking or has exited with status 1, no
\* process has been spawned and none is tracked.
C29_InvalidRejected ==
    InvalidInput =>
        /\ pc \in {"validate_count", "validate_videos", "exit"}
        /\ (pc = "exit") => exit_code = 1
        /\ (pc = "validate_videos") =>
              /\ MIN_SCREENS <= cfg_n /\ cfg_n <= MAX_SCREENS
              /\ \A k \in 0 .. i - 1 : cfg_videos[k] = "file"
        /\ \A s \in Slots : proc[s] = "none"
        /\ processes = << >>

\* The script has exited with status 1 on the missing file of its second
\* screen, with nothing spawned.
C29_Witness ==
    /\ pc = "exit"
    /\ exit_code = 1
    /\ cfg_n = 2
    /\ cfg_videos[0] = "file"
    /\ cfg_videos[1] = "missing"
    /\ cfg_mpv
    /\ \A s \in Slots : proc[s] = "none"

\* C30: while the loop runs, iteration changes only at the time.sleep(1) that
\* begins an iteration, by exactly 1, and never goes down; that step goes to
\* the health check exactly if the new count is a multiple of
\* health_check_interval, so the sample of such an iteration is reached only
\* through a health check that found every tracked process running; a health
\* check that finds a dead process starts cleanup_processes with exit status
\* 1 pending, without a sample or a worker thread, and the engine exits with
\* status 1 unless a signal has restarted the teardown.
C30_IterationAndHealth ==
    [][ /\ (pc' \notin ShutdownPcs) =>
              /\ iteration' >= iteration
              /\ (iteration' # iteration) =>
                    (pc = "loop_sleep" /\ iteration' = iteration + 1)
        /\ (pc = "loop_sleep" /\ pc' # pc /\ pc' \notin ShutdownPcs) =>
              /\ iteration' = iteration + 1
              /\ (pc' = "loop_health") <=>
                    (iteration' % health_check_interval = 0)
              /\ (pc' = "loop_sample") <=>
                    (iteration' % health_check_interval # 0)
        /\ (pc = "loop_health") => (iteration % health_check_interval = 0)
        /\ (pc # "loop_sample" /\ pc' = "loop_sample") =>
              \/ (pc = "loop_health" /\ ~SomeTrackedExited)
              \/ (pc = "loop_sleep" /\ iteration' % health_check_interval # 0)
        /\ (pc = "loop_health" /\ SomeTrackedExited /\ pc' # pc) =>
              /\ pc' = "cl_quit"
              /\ \/ (exit_pending' = 1 /\ fatal' = "dead")
                 \/ (exit_pending' = 0 /\ fatal' = "none")
              /\ current_position' = None
              /\ threads' = threads
              /\ attempted' = attempted
        /\ (fatal = "dead" /\ teardowns = 1 /\ pc' = "exit") => exit_code' = 1
      ]_vars

\* The health check of the tenth iteration has found both processes dead and
\* the engine is entering cleanup_processes.
C30_Witness ==
    /\ pc = "cl_quit"
    /\ i = 0
    /\ quit_tried = {}
    /\ teardowns = 1
    /\ fatal = "dead"
    /\ exit_pending = 1
    /\ check_processes_health = << 0, 1 >>

\* ------------------------------------------------------------------- C31
\* The positions of the main thread inside sync_all and the broadcasts.
BarrierPcs == BcPcs \cup {"sync_check", "sync_ret"}

\* The steps one invocation of sync_all consists of.
BarrierStep ==
    \/ SyncCheck
    \/ BcSpawn
    \/ BcJoin
    \/ SyncPhase
    \/ SyncReturn
    \/ \E s \in Slots : Worker(s)

\* The steps one broadcast takes: per slot a thread start and a send, the
\* joins, and the handling of the results.
BroadcastSteps == 2 * NumScreens + 2

\* The number of broadcasts sync_all still has to start after command c.
BroadcastsAfter(c) ==
    IF c = "pause" THEN 2 ELSE IF c = "seek" THEN 1 ELSE 0

\* The steps the threads of the running broadcast still have to take.
ThreadSteps ==
    2 * Cardinality({s \in Slots : threads[s] = "idle"})
    + Cardinality({s \in Slots : threads[s] = "run"})

\* The number of steps the invocation of sync_all in progress still takes
\* before it has returned to its caller; 0 outside sync_all.
BarrierRank ==
    IF pc = "sync_check" THEN 3 * BroadcastSteps + 2
    ELSE IF pc \in {"bc_spawn", "bc_join"}
         THEN BroadcastsAfter(command) * BroadcastSteps + ThreadSteps + 3
    ELSE IF pc = "bc_ret"
         THEN BroadcastsAfter(command) * BroadcastSteps + 2
    ELSE IF pc = "sync_ret" THEN 1
    ELSE 0

\* While the main thread is inside sync_all, some step of the barrier can be
\* taken and every started worker can finish its send.
BarrierCanStep ==
    pc \in BarrierPcs =>
        /\ ENABLED BarrierStep
        /\ \A s \in Slots : threads[s] = "run" => ENABLED Worker(s)

\* A step taken inside sync_all never raises the count of steps left, and a
\* step of the main thread or of a worker lowers it.
BarrierCloser ==
    pc \in BarrierPcs =>
        /\ BarrierRank' <= BarrierRank
        /\ (<< pc, threads, command >>' # << pc, threads, command >>
               => BarrierRank' < BarrierRank)

\* C31: every invocation of the barrier terminates, whichever slots are
\* unresponsive or absent: while the main thread is inside sync_all some step
\* of the barrier can be taken, every started worker can finish its send
\* within the capped number of attempts whatever the state of its slot, and
\* every step of the main thread or of a worker brings the return of
\* sync_all strictly closer (a bounded count of steps is left).
C31_BarrierTerminates == []BarrierCanStep /\ [][BarrierCloser]_vars

\* sync_all called from the polling loop has gone through its three
\* broadcasts and is about to return although a slot had no player running
\* or no socket file when its resume worker ran.
C31_Witness ==
    /\ pc = "sync_ret"
    /\ caller = "loop"
    /\ resolved["resume"] = Slots
    /\ \E s \in Slots : s \notin acked /\ (proc[s] # "running" \/ ~sock[s])

\* ------------------------------------------------------------------- C32
\* The handle table pairs with the list of socket paths: the handle at index
\* k is the process started for the path at index k.
HandlesMatchSockets ==
    /\ Len(processes) <= NumScreens
    /\ \A k \in 1 .. Len(processes) : processes[k] = sockets[k - 1]

\* The only step that changes the handle table is the launch loop's
\* processes.append(proc), which adds the handle of the process just started
\* at the end.
OnlyLaunchAppends ==
    processes' # processes =>
        /\ pc = "register"
        /\ processes' = Append(processes, sockets[i])

\* C32: the list of socket paths and the table of process handles are left
\* as they are by the barrier, the broadcast, a single send, the position
\* read, the health check and the polling loop; the handle table only grows,
\* by the launch loop's append, in the order of the socket paths; teardown
\* removes socket files but changes neither list.
C32_ListsFramed == []HandlesMatchSockets /\ [][OnlyLaunchAppends]_vars

\* The engine went through startup, the barrier and polling-loop iterations,
\* then tore down: the socket files are gone and the handle table still
\* holds one handle per screen.
C32_Witness ==
    /\ pc = "exit"
    /\ fatal \in {"dead", "reads"}
    /\ \A s \in Slots : ~sock[s]
    /\ Len(processes) = NumScreens

\* ------------------------------------------------------------------- C33
\* C33: when the engine has exited after a termination signal, whatever the
\* point of startup the signal interrupted (also between Popen returning and
\* processes.append), no player process that was spawned is still alive.
\* Violated: the process started by Popen whose handle was not yet appended
\* to processes is unknown to cleanup_processes and survives the exit.
C33_NoOrphanAtExit ==
    (pc = "exit" /\ exit_code = 0 /\ fatal = "none")
        => \A s \in Slots : ~Alive(s)

\* ------------------------------------------------------------------- C34
\* An iteration whose position read failed without reaching the cap: it
\* keeps last_position and goes to the next sleep, not into sync_all.
FailedReadFrame ==
    (pc = "loop_sample" /\ failed_position_reads' = failed_position_reads + 1)
        => /\ last_position' = last_position
           /\ current_position' = None
           /\ pc' = "loop_sleep"

\* sync_all is entered from the polling loop only on a successful read that
\* lies more than the slack below last_position, and a successful read after
\* failed ones that lies that far below last_position does enter it.
WrapSeenAfterFailures ==
    /\ (pc = "loop_sample" /\ pc' = "sync_check")
          => /\ current_position' # None
             /\ LoopDetected(current_position', last_position)
    /\ (pc = "loop_sample" /\ failed_position_reads > 0
           /\ current_position' # None /\ failed_position_reads' = 0
           /\ pc' \notin ShutdownPcs
           /\ LoopDetected(current_position', last_position))
          => pc' = "sync_check"

C34_Step == FailedReadFrame /\ WrapSeenAfterFailures

\* C34: a failed position read leaves last_position as it was and never
\* starts the barrier; so a wrap that happened during fewer than
\* max_failed_reads failed reads is detected at the first successful read
\* after them, which is compared with the last successfully read position.
C34_FailedReadKeepsReference == [][C34_Step]_vars

\* Reads have failed since the last successful one, last_position is still
\* the position read before them, and the reference player has wrapped in
\* the meantime: its position lies more than the slack below last_position
\* and the next read can succeed.
C34_Witness ==
    /\ pc = "loop_sample"
    /\ failed_position_reads > 0
    /\ last_position > LOOP_THRESHOLD
    /\ sock[0] /\ proc[0] = "running"
    /\ LoopDetected(pos[0], last_position)

\* ------------------------------------------------------------------- C35
\* Between iterations, last_position is the sample of the last iteration
\* whose read succeeded, whether or not that iteration called sync_all.
ReferenceIsLastSample ==
    (pc \in LoopPcs /\ current_position # None)
        => last_position = current_position

\* The return of sync_all to the polling loop records the sample that
\* triggered it, whatever sync_all returned, and sync_all is called from
\* the loop only for a sample more than the slack below last_position.
ResyncRecordsSample ==
    /\ (pc = "sync_ret" /\ caller = "loop" /\ pc' = "loop_sleep")
          => last_position' = current_position
    /\ (pc \in LoopPcs /\ pc' = "sync_check")
          => current_position' < last_position - LOOP_THRESHOLD

OtherSlotDead ==
    /\ proc[0] = "running"
    /\ \E k \in 2 .. Len(processes) : proc[processes[k]] = "exited"

\* At most health_check_interval iterations begin while a tracked process
\* has exited, and the last of them is at its health check.
DeathSeenInTen ==
    /\ dead_polls <= health_check_interval
    /\ (pc \in LoopPcs \cup BarrierPcs /\ dead_polls = health_check_interval)
          => pc = "loop_health"

\* The steps of the polling loop while a process has exited: the periodic
\* health check that finds it starts the teardown; sync_all called for a
\* detected wrap finds it at entry and returns False; the return of a failed
\* sync_all goes on with the loop; and nothing but the periodic health check
\* starts a teardown on account of the dead process.
DeadSlotSteps ==
    /\ (pc = "loop_health" /\ SomeTrackedExited /\ pc' # pc)
          => (pc' = "cl_quit" /\ (exit_pending' = 1 \/ fatal' = "none"))
    /\ (pc = "sync_check" /\ caller = "loop" /\ SomeTrackedExited /\ pc' # pc)
          => \/ (pc' = "sync_ret" /\ ~sync_ok')
             \/ (pc' = "cl_quit" /\ exit_pending' = 0)
    /\ (pc = "sync_ret" /\ caller = "loop" /\ ~sync_ok /\ pc' # pc)
          => \/ (pc' = "loop_sleep" /\ exit_pending' = exit_pending
                   /\ iteration' = iteration)
             \/ (pc' = "cl_quit" /\ exit_pending' = 0)
    /\ (pc \notin ShutdownPcs /\ pc' \in ShutdownPcs /\ fatal' = "dead")
          => (pc = "loop_health" /\ HealthDue(iteration))

\* C36: in the polling loop, when the process of a slot other than slot 0
\* has exited and the reads of slot 0 keep succeeding, the teardown begins at
\* the latest in the tenth iteration begun after the death, at that
\* iteration's health check; until then the loop goes on, also when a
\* barrier called in between returns failure because of the dead process.
C36_DeadSlotWithinTenPolls == []DeathSeenInTen /\ [][DeadSlotSteps]_vars

\* The tenth iteration after the death of the process of a slot other than 0
\* is at its health check; a barrier called since has failed, the reads of
\* slot 0 succeed, and the engine has not begun a teardown.
C36_Witness ==
    /\ pc = "loop_health"
    /\ OtherSlotDead
    /\ dead_polls = health_check_interval
    /\ resync_failed
    /\ failed_position_reads = 0
    /\ current_position # None
    /\ teardowns = 0

\* ------------------------------------------------------------------- C37
\* The slots whose worker ends in the step.
Ending == {s \in Slots : threads[s] = "run" /\ threads'[s] = "done"}

\* A step in which a worker ends assigns at most the entry of that worker's
\* slot, with the outcome of its own send; a worker ends once per broadcast,
\* from running; and any other change of the result vector is the main
\* thread making a fresh all-False vector or dropping the returned one.
WorkerWritesOwnEntry ==
    /\ Cardinality(Ending) <= 1
    /\ \A s \in Ending :
          /\ \A t \in Slots \ {s} : results'[t] = results[t]
          /\ results'[s] <=> (s \in acked' /\ s \notin acked)
    /\ \A s \in Slots :
          (threads[s] = "done" /\ threads'[s] # "done")
              => (pc' # pc /\ threads' = [t \in Slots |-> "idle"])
    /\ (results' # results /\ Ending = {})
          => (pc' # pc /\ results' = [t \in Slots |-> FALSE])

\* Whatever the order in which the workers ran, the entries written so far
\* are those of the slots whose send succeeded; at the return of the
\* broadcast this is the vector the sends made one after another give.
VectorIsPerSlot ==
    pc \in BcPcs => results = [s \in Slots |-> s \in acked]

\* C37: within one broadcast the worker of slot i assigns only entry i of
\* results, and assigns it exactly once, so that under every interleaving of
\* the workers the vector returned is the one the sends made one after
\* another would give: entry i is the outcome of the send to slot i.
C37_WorkersWriteOwnEntry == []VectorIsPerSlot /\ [][WorkerWritesOwnEntry]_vars

\* The worker of slot 1 has ended before the worker of slot 0, which still
\* runs: entry 1 holds its outcome and entry 0 is untouched.
C37_Witness ==
    /\ pc = "bc_join"
    /\ threads[0] = "run"
    /\ threads[1] = "done"
    /\ results[1]
    /\ ~results[0]

=============================================================================
